---- MODULE Spec2Model ----
(***************************************************************************)
(* OSS point-in-time recovery (main.py).  One run of recover_objects       *)
(* against a versioned bucket: get_object_versions pages through the       *)
(* version listing and builds latest_versions / keys_without_older_        *)
(* versions, restore_latest_versions copies each chosen version onto its   *)
(* key, delete_newer_versions deletes the keys that have no version at or  *)
(* before the recovery time.  The bucket (oss2.Bucket) is the environment: *)
(* it serves the listing page by page and may fail any request.            *)
(***************************************************************************)
EXTENDS Integers, Sequences, FiniteSets, TLC

\* ------------------------------------------------------------------ bounds
\* Longest version listing the bucket holds.
MaxVersions == 3

\* Object keys under the prefix, version ids, and last_modified values
\* (epoch seconds) the bucket can report.  The two instants straddle a
\* midnight, so the date part and the time-of-day part of a datetime both
\* take part in the comparisons.
Keys == {"object1", "object2"}
VersionIds == {"v1", "v2"}
LastModified == {86399, 86400}
\* Recovery times the caller can pass: before every version, equal to the
\* older instant, equal to the newer instant.
RecoveryEpochs == {86398, 86399, 86400}

bucket_name == "bucket"
prefix == "prefix/"

\* max_keys argument of list_object_versions.
max_keys == 999

\* ---------------------------------------------------------------- datetime
SecondsPerDay == 86400

\* datetime.datetime.fromtimestamp(ts, datetime.timezone.utc): the calendar
\* day and the second within the day.
FromTimestamp(ts) == [day |-> ts \div SecondsPerDay, second |-> ts % SecondsPerDay]

\* Variant: the comparison excludes equal instants.
DatetimeLT(a, b) == a.day < b.day \/ (a.day = b.day /\ a.second < b.second)

\* a <= b and a > b on datetimes: field by field, most significant first.
DatetimeLE(a, b) == a.day < b.day \/ (a.day = b.day /\ a.second <= b.second)

DatetimeGT(a, b) == a.day > b.day \/ (a.day = b.day /\ a.second > b.second)

\* -------------------------------------------------------------------- dict
\* A Python dict is a sequence of <<key, value>> entries in insertion order.
DictKeys(d) == {d[n][1] : n \in 1..Len(d)}

DictHas(d, k) == k \in DictKeys(d)

DictGet(d, k) == d[CHOOSE n \in 1..Len(d) : d[n][1] = k][2]

\* d[k] = v: an existing key keeps its position, a new key goes last.
DictSet(d, k, v) ==
    IF DictHas(d, k)
    THEN [n \in 1..Len(d) |-> IF d[n][1] = k THEN <<k, v>> ELSE d[n]]
    ELSE Append(d, <<k, v>>)

\* ------------------------------------------------------------------- state
VARIABLES
    versions,                     \* the bucket's version listing, in the order it is served
    served,                       \* how many records of it the bucket has returned
    recovery_time, dry_run, delete_newer,   \* arguments of recover_objects
    pc,                           \* position of the run
    latest_versions,              \* dict key -> version info
    keys_without_older_versions,  \* set of keys
    next_key_marker, next_versionid_marker,
    result,                       \* the last list_object_versions response
    idx,                          \* position of the for loop in result.versions
    restore_idx,                  \* position of the for loop of restore_latest_versions
    delete_todo,                  \* keys the for loop of delete_newer_versions has not visited
    list_calls, copy_calls, delete_calls,   \* requests the bucket received, in order
    raised,                       \* the requests the bucket failed: <<operation, position>>
    recovery_time_str,            \* --recovery-time as main received it (characters)
    bucket,                       \* the client main built, or None
    sys_exit,                     \* <<code>> once sys.exit(code) was called
    log                           \* info and error lines the run logged

vars == <<versions, served, recovery_time, dry_run, delete_newer, pc,
          latest_versions, keys_without_older_versions,
          next_key_marker, next_versionid_marker, result, idx,
          restore_idx, delete_todo, list_calls, copy_calls, delete_calls, raised,
          recovery_time_str, bucket, sys_exit, log>>

\* What only main assigns.
mainvars == <<recovery_time_str, bucket, sys_exit>>

None == "None"

VersionRecords == [key : Keys, versionid : VersionIds, last_modified : LastModified]

RECURSIVE SeqsUpTo(_, _)
SeqsUpTo(S, n) ==
    IF n = 0 THEN {<<>>}
    ELSE LET shorter == SeqsUpTo(S, n - 1)
         IN shorter \cup {Append(s, x) : s \in {t \in shorter : Len(t) = n - 1}, x \in S}

NoResult == [versions |-> <<>>, is_truncated |-> FALSE,
             next_key_marker |-> "", next_versionid_marker |-> ""]

Init ==
    /\ versions \in SeqsUpTo(VersionRecords, MaxVersions)
    /\ served = 0
    /\ recovery_time \in {FromTimestamp(e) : e \in RecoveryEpochs}
    /\ dry_run \in BOOLEAN
    /\ delete_newer \in BOOLEAN
    /\ pc = "recover_objects"
    /\ latest_versions = <<>>
    /\ keys_without_older_versions = {}
    /\ next_key_marker = ""
    /\ next_versionid_marker = ""
    /\ result = NoResult
    /\ idx = 1
    /\ restore_idx = 1
    /\ delete_todo = {}
    /\ list_calls = <<>>
    /\ copy_calls = <<>>
    /\ delete_calls = <<>>
    /\ raised = {}
    /\ recovery_time_str = None
    /\ bucket = bucket_name
    /\ sys_exit = <<>>
    /\ log = <<>>

\* ------------------------------------------------------------ the listing
\* recover_objects up to the first list request: the start line, then the
\* locals of get_object_versions.
RecoverObjects ==
    /\ pc = "recover_objects"
    /\ log' = Append(log, [level |-> "info", msg |-> "Starting recovery process"])
    /\ latest_versions' = <<>>
    /\ keys_without_older_versions' = {}
    /\ next_key_marker' = ""
    /\ next_versionid_marker' = ""
    /\ pc' = "list_object_versions"
    /\ UNCHANGED mainvars
    /\ UNCHANGED <<raised, versions, served, recovery_time, dry_run, delete_newer, result, idx,
                   restore_idx, delete_todo, list_calls, copy_calls, delete_calls>>

ListRequest ==
    [prefix |-> prefix, key_marker |-> next_key_marker,
     versionid_marker |-> next_versionid_marker, max_keys |-> max_keys]

\* The page the bucket answers with when it returns the next n records.
Page(n) ==
    LET more == served + n < Len(versions)
    IN [versions |-> SubSeq(versions, served + 1, served + n),
        is_truncated |-> more,
        next_key_marker |-> IF more THEN versions[served + n + 1].key ELSE "",
        next_versionid_marker |-> IF more THEN versions[served + n + 1].versionid ELSE ""]

\* bucket.list_object_versions(...) returns a page: at least one record
\* while records remain, at most max_keys.
ListObjectVersions ==
    /\ pc = "list_object_versions"
    /\ \E n \in 0..(Len(versions) - served) :
        /\ n <= max_keys
        /\ (n = 0) => (served = Len(versions))
        /\ result' = Page(n)
        /\ served' = served + n
    /\ list_calls' = Append(list_calls, ListRequest)
    /\ idx' = 1
    /\ pc' = "for_versions"
    /\ UNCHANGED mainvars
    /\ UNCHANGED <<raised, versions, recovery_time, dry_run, delete_newer, latest_versions,
                   keys_without_older_versions, next_key_marker, next_versionid_marker,
                   restore_idx, delete_todo, copy_calls, delete_calls, log>>

\* Variant: the failure is caught and the pages read so far are used.
ListObjectVersionsRaisesSwallowed ==
    /\ pc = "list_object_versions"
    /\ list_calls' = Append(list_calls, ListRequest)
    /\ pc' = "restore_latest_versions"
    /\ raised' = raised \cup {<<"list_object_versions", Len(list_calls) + 1>>}
    /\ UNCHANGED mainvars
    /\ UNCHANGED <<versions, served, recovery_time, dry_run, delete_newer, latest_versions,
                   keys_without_older_versions, next_key_marker, next_versionid_marker,
                   result, idx, restore_idx, delete_todo, copy_calls, delete_calls, log>>

\* bucket.list_object_versions(...) raises: nothing catches it, so it leaves
\* get_object_versions and recover_objects.
ListObjectVersionsRaises ==
    /\ pc = "list_object_versions"
    /\ list_calls' = Append(list_calls, ListRequest)
    /\ pc' = "raised"
    /\ raised' = raised \cup {<<"list_object_versions", Len(list_calls) + 1>>}
    /\ UNCHANGED mainvars
    /\ UNCHANGED <<versions, served, recovery_time, dry_run, delete_newer, latest_versions,
                   keys_without_older_versions, next_key_marker, next_versionid_marker,
                   result, idx, restore_idx, delete_todo, copy_calls, delete_calls, log>>

VersionInfo(obj_version) ==
    [versionid |-> obj_version.versionid,
     version_time |-> FromTimestamp(obj_version.last_modified),
     last_modified_str |-> obj_version.last_modified]

\* Variant: the recorded entry is never compared with the new record, so
\* whichever qualifying version arrives last is kept.
UpdateLatestLastSeen(latest, obj_version, cutoff) ==
    IF DatetimeLE(FromTimestamp(obj_version.last_modified), cutoff)
    THEN DictSet(latest, obj_version.key, VersionInfo(obj_version))
    ELSE latest

\* Variant: the comparison with the recorded entry is >=, so of two
\* qualifying versions with the same instant the later arrival is kept.
UpdateLatestLaterTieWins(latest, obj_version, cutoff) ==
    LET key == obj_version.key
        version_time == FromTimestamp(obj_version.last_modified)
    IN IF DatetimeLE(version_time, cutoff)
          /\ (~DictHas(latest, key)
              \/ ~DatetimeLT(version_time, DictGet(latest, key).version_time))
       THEN DictSet(latest, key, VersionInfo(obj_version))
       ELSE latest

\* The body of `for obj_version in result.versions`: latest_versions after
\* one record.
UpdateLatest(latest, obj_version, cutoff) ==
    LET key == obj_version.key
        version_time == FromTimestamp(obj_version.last_modified)
    IN IF DatetimeLE(version_time, cutoff)
          /\ (~DictHas(latest, key)
              \/ DatetimeGT(version_time, DictGet(latest, key).version_time))
       THEN DictSet(latest, key, VersionInfo(obj_version))
       ELSE latest

\* Variant: a qualifying version does not discard the key.
UpdateOrphansNoDiscard(orphans, latest, obj_version, cutoff) ==
    IF ~DatetimeLE(FromTimestamp(obj_version.last_modified), cutoff)
       /\ ~DictHas(latest, obj_version.key)
    THEN orphans \cup {obj_version.key}
    ELSE orphans

\* Variant: a version after the cutoff adds the key whether or not
\* latest_versions has an entry for it.
UpdateOrphansAlwaysAdd(orphans, latest, obj_version, cutoff) ==
    IF DatetimeLE(FromTimestamp(obj_version.last_modified), cutoff)
    THEN orphans \ {obj_version.key}
    ELSE orphans \cup {obj_version.key}

\* keys_without_older_versions after one record.
UpdateOrphans(orphans, latest, obj_version, cutoff) ==
    LET key == obj_version.key
        version_time == FromTimestamp(obj_version.last_modified)
    IN IF DatetimeLE(version_time, cutoff) THEN orphans \ {key}
       ELSE IF ~DictHas(latest, key) THEN orphans \cup {key}
       ELSE orphans

\* The two collections after the for loop has run over the records of seq,
\* in order, from empty collections.
RECURSIVE PlanLatest(_, _)
PlanLatest(seq, cutoff) ==
    IF seq = <<>> THEN <<>>
    ELSE UpdateLatest(PlanLatest(SubSeq(seq, 1, Len(seq) - 1), cutoff), seq[Len(seq)], cutoff)

RECURSIVE PlanOrphans(_, _)
PlanOrphans(seq, cutoff) ==
    IF seq = <<>> THEN {}
    ELSE LET front == SubSeq(seq, 1, Len(seq) - 1)
         IN UpdateOrphans(PlanOrphans(front, cutoff), PlanLatest(front, cutoff),
                          seq[Len(seq)], cutoff)

ProcessVersion ==
    /\ pc = "for_versions"
    /\ idx <= Len(result.versions)
    /\ latest_versions' = UpdateLatest(latest_versions, result.versions[idx], recovery_time)
    /\ keys_without_older_versions' =
          UpdateOrphans(keys_without_older_versions, latest_versions,
                        result.versions[idx], recovery_time)
    /\ idx' = idx + 1
    /\ UNCHANGED mainvars
    /\ UNCHANGED <<raised, versions, served, recovery_time, dry_run, delete_newer, pc,
                   next_key_marker, next_versionid_marker, result,
                   restore_idx, delete_todo, list_calls, copy_calls, delete_calls, log>>

\* Variant: only the key marker is threaded.
NextPageKeyMarkerOnly ==
    /\ pc = "for_versions"
    /\ idx > Len(result.versions)
    /\ result.is_truncated
    /\ next_key_marker' = result.next_key_marker
    /\ next_versionid_marker' = next_versionid_marker
    /\ pc' = "list_object_versions"
    /\ UNCHANGED mainvars
    /\ UNCHANGED <<raised, versions, served, recovery_time, dry_run, delete_newer, latest_versions,
                   keys_without_older_versions, result, idx,
                   restore_idx, delete_todo, list_calls, copy_calls, delete_calls, log>>

\* After the for loop, the page was truncated: thread the markers and loop.
NextPage ==
    /\ pc = "for_versions"
    /\ idx > Len(result.versions)
    /\ result.is_truncated
    /\ next_key_marker' = result.next_key_marker
    /\ next_versionid_marker' = result.next_versionid_marker
    /\ pc' = "list_object_versions"
    /\ UNCHANGED mainvars
    /\ UNCHANGED <<raised, versions, served, recovery_time, dry_run, delete_newer, latest_versions,
                   keys_without_older_versions, result, idx,
                   restore_idx, delete_todo, list_calls, copy_calls, delete_calls, log>>

\* After the for loop, the page was the last: break, return the two
\* collections, and recover_objects enters restore_latest_versions.
GetObjectVersionsReturn ==
    /\ pc = "for_versions"
    /\ idx > Len(result.versions)
    /\ ~result.is_truncated
    /\ next_key_marker' = ""
    /\ next_versionid_marker' = ""
    /\ result' = NoResult
    /\ idx' = 1
    /\ restore_idx' = 1
    /\ pc' = "restore_latest_versions"
    /\ UNCHANGED mainvars
    /\ UNCHANGED <<raised, versions, served, recovery_time, dry_run, delete_newer, latest_versions,
                   keys_without_older_versions,
                   delete_todo, list_calls, copy_calls, delete_calls, log>>

\* ------------------------------------------------------------ the restore
RestoreAction(key, version_info) ==
    [verb |-> "Restoring", key |-> key, versionid |-> version_info.versionid,
     version_time |-> version_info.version_time]

\* Variant: every request carries the version id of the first entry.
CopyRequestStale(key, version_info) ==
    [source_bucket_name |-> bucket_name, source_key |-> key, target_key |-> key,
     params |-> [versionId |-> latest_versions[1][2].versionid]]

CopyRequest(key, version_info) ==
    [source_bucket_name |-> bucket_name, source_key |-> key, target_key |-> key,
     params |-> [versionId |-> version_info.versionid]]

\* Variant: the dry-run turn logs nothing at info level.
RestoreDryRunSilent ==
    /\ pc = "restore_latest_versions"
    /\ restore_idx <= Len(latest_versions)
    /\ dry_run
    /\ log' = log
    /\ restore_idx' = restore_idx + 1
    /\ UNCHANGED mainvars
    /\ UNCHANGED <<raised, versions, served, recovery_time, dry_run, delete_newer, pc,
                   latest_versions, keys_without_older_versions, next_key_marker,
                   next_versionid_marker, result, idx, delete_todo,
                   list_calls, copy_calls, delete_calls>>

\* One turn of `for key, version_info in latest_versions.items()` with
\* dry_run set: the intended action is logged, nothing is sent.
RestoreDryRun ==
    /\ pc = "restore_latest_versions"
    /\ restore_idx <= Len(latest_versions)
    /\ dry_run
    /\ LET key == latest_versions[restore_idx][1]
           version_info == latest_versions[restore_idx][2]
       IN log' = Append(log, [level |-> "info", msg |-> "[Dry Run] Would",
                              action |-> RestoreAction(key, version_info)])
    /\ restore_idx' = restore_idx + 1
    /\ UNCHANGED mainvars
    /\ UNCHANGED <<raised, versions, served, recovery_time, dry_run, delete_newer, pc,
                   latest_versions, keys_without_older_versions, next_key_marker,
                   next_versionid_marker, result, idx, delete_todo,
                   list_calls, copy_calls, delete_calls>>

\* Variant: the request is sent without looking at dry_run.
CopyObjectAlways ==
    /\ pc = "restore_latest_versions"
    /\ restore_idx <= Len(latest_versions)
    /\ LET key == latest_versions[restore_idx][1]
           version_info == latest_versions[restore_idx][2]
       IN /\ log' = Append(log, [level |-> "info", msg |-> "",
                                 action |-> RestoreAction(key, version_info)])
          /\ copy_calls' = Append(copy_calls, CopyRequest(key, version_info))
    /\ restore_idx' = restore_idx + 1
    /\ UNCHANGED mainvars
    /\ UNCHANGED <<raised, versions, served, recovery_time, dry_run, delete_newer, pc,
                   latest_versions, keys_without_older_versions, next_key_marker,
                   next_versionid_marker, result, idx, delete_todo,
                   list_calls, delete_calls>>

\* One turn without dry_run: the action is logged, bucket.copy_object is
\* called and returns.
CopyObject ==
    /\ pc = "restore_latest_versions"
    /\ restore_idx <= Len(latest_versions)
    /\ ~dry_run
    /\ LET key == latest_versions[restore_idx][1]
           version_info == latest_versions[restore_idx][2]
       IN /\ log' = Append(log, [level |-> "info", msg |-> "",
                                 action |-> RestoreAction(key, version_info)])
          /\ copy_calls' = Append(copy_calls, CopyRequest(key, version_info))
    /\ restore_idx' = restore_idx + 1
    /\ UNCHANGED mainvars
    /\ UNCHANGED <<raised, versions, served, recovery_time, dry_run, delete_newer, pc,
                   latest_versions, keys_without_older_versions, next_key_marker,
                   next_versionid_marker, result, idx, delete_todo,
                   list_calls, delete_calls>>

\* Variant: no except clause, the exception leaves restore_latest_versions.
CopyObjectRaisesUncaught ==
    /\ pc = "restore_latest_versions"
    /\ restore_idx <= Len(latest_versions)
    /\ ~dry_run
    /\ LET key == latest_versions[restore_idx][1]
           version_info == latest_versions[restore_idx][2]
       IN /\ log' = Append(log, [level |-> "info", msg |-> "",
                                 action |-> RestoreAction(key, version_info)])
          /\ copy_calls' = Append(copy_calls, CopyRequest(key, version_info))
    /\ restore_idx' = restore_idx
    /\ pc' = "raised"
    /\ raised' = raised \cup {<<"copy_object", Len(copy_calls) + 1>>}
    /\ UNCHANGED mainvars
    /\ UNCHANGED <<versions, served, recovery_time, dry_run, delete_newer,
                   latest_versions, keys_without_older_versions, next_key_marker,
                   next_versionid_marker, result, idx, delete_todo,
                   list_calls, delete_calls>>

\* One turn without dry_run where bucket.copy_object raises: `except
\* Exception` logs the error and the loop goes on.
CopyObjectRaises ==
    /\ pc = "restore_latest_versions"
    /\ restore_idx <= Len(latest_versions)
    /\ ~dry_run
    /\ LET key == latest_versions[restore_idx][1]
           version_info == latest_versions[restore_idx][2]
       IN /\ log' = log \o <<[level |-> "info", msg |-> "",
                              action |-> RestoreAction(key, version_info)],
                             [level |-> "error", msg |-> "Error restoring",
                              key |-> key, versionid |-> version_info.versionid]>>
          /\ copy_calls' = Append(copy_calls, CopyRequest(key, version_info))
    /\ restore_idx' = restore_idx + 1
    /\ raised' = raised \cup {<<"copy_object", Len(copy_calls) + 1>>}
    /\ UNCHANGED mainvars
    /\ UNCHANGED <<versions, served, recovery_time, dry_run, delete_newer, pc,
                   latest_versions, keys_without_older_versions, next_key_marker,
                   next_versionid_marker, result, idx, delete_todo,
                   list_calls, delete_calls>>

Completed == [level |-> "info", msg |-> "Recovery process completed."]

\* Variant: delete_newer_versions is handed the keys of latest_versions.
RestoreReturnWrongKeys ==
    /\ pc = "restore_latest_versions"
    /\ restore_idx > Len(latest_versions)
    /\ restore_idx' = 1
    /\ IF delete_newer
       THEN /\ pc' = "delete_newer_versions"
            /\ delete_todo' = DictKeys(latest_versions)
            /\ log' = log
       ELSE /\ pc' = "completed"
            /\ delete_todo' = delete_todo
            /\ log' = Append(log, Completed)
    /\ UNCHANGED mainvars
    /\ UNCHANGED <<raised, versions, served, recovery_time, dry_run, delete_newer,
                   latest_versions, keys_without_older_versions, next_key_marker,
                   next_versionid_marker, result, idx,
                   list_calls, copy_calls, delete_calls>>

\* Variant: delete_newer_versions is entered whatever delete_newer is.
RestoreReturnAlwaysDeletes ==
    /\ pc = "restore_latest_versions"
    /\ restore_idx > Len(latest_versions)
    /\ restore_idx' = 1
    /\ IF TRUE
       THEN /\ pc' = "delete_newer_versions"
            /\ delete_todo' = keys_without_older_versions
            /\ log' = log
       ELSE /\ pc' = "completed"
            /\ delete_todo' = delete_todo
            /\ log' = Append(log, Completed)
    /\ UNCHANGED mainvars
    /\ UNCHANGED <<raised, versions, served, recovery_time, dry_run, delete_newer,
                   latest_versions, keys_without_older_versions, next_key_marker,
                   next_versionid_marker, result, idx,
                   list_calls, copy_calls, delete_calls>>

\* restore_latest_versions returns; recover_objects enters
\* delete_newer_versions if delete_newer, else logs the end line.
RestoreReturn ==
    /\ pc = "restore_latest_versions"
    /\ restore_idx > Len(latest_versions)
    /\ restore_idx' = 1
    /\ IF delete_newer
       THEN /\ pc' = "delete_newer_versions"
            /\ delete_todo' = keys_without_older_versions
            /\ log' = log
       ELSE /\ pc' = "completed"
            /\ delete_todo' = delete_todo
            /\ log' = Append(log, Completed)
    /\ UNCHANGED mainvars
    /\ UNCHANGED <<raised, versions, served, recovery_time, dry_run, delete_newer,
                   latest_versions, keys_without_older_versions, next_key_marker,
                   next_versionid_marker, result, idx,
                   list_calls, copy_calls, delete_calls>>

\* ------------------------------------------------------------- the delete
DeleteAction(key) == [verb |-> "Deleting", key |-> key]

\* One turn of `for key in keys_without_older_versions` (a set: any order)
\* with dry_run set.
DeleteDryRun ==
    /\ pc = "delete_newer_versions"
    /\ dry_run
    /\ \E key \in delete_todo :
        /\ log' = Append(log, [level |-> "info", msg |-> "[Dry Run] Would",
                               action |-> DeleteAction(key)])
        /\ delete_todo' = delete_todo \ {key}
    /\ UNCHANGED mainvars
    /\ UNCHANGED <<raised, versions, served, recovery_time, dry_run, delete_newer, pc,
                   latest_versions, keys_without_older_versions, next_key_marker,
                   next_versionid_marker, result, idx, restore_idx,
                   list_calls, copy_calls, delete_calls>>

\* One turn without dry_run: bucket.delete_object(key) is called and returns.
\* Variant: a deleted key is taken out of keys_without_older_versions.
DeleteObjectDiscards ==
    /\ pc = "delete_newer_versions"
    /\ ~dry_run
    /\ \E key \in delete_todo :
        /\ log' = Append(log, [level |-> "info", msg |-> "", action |-> DeleteAction(key)])
        /\ delete_calls' = Append(delete_calls, key)
        /\ delete_todo' = delete_todo \ {key}
        /\ keys_without_older_versions' = keys_without_older_versions \ {key}
    /\ UNCHANGED mainvars
    /\ UNCHANGED <<raised, versions, served, recovery_time, dry_run, delete_newer, pc,
                   latest_versions, next_key_marker,
                   next_versionid_marker, result, idx, restore_idx,
                   list_calls, copy_calls>>

DeleteObject ==
    /\ pc = "delete_newer_versions"
    /\ ~dry_run
    /\ \E key \in delete_todo :
        /\ log' = Append(log, [level |-> "info", msg |-> "", action |-> DeleteAction(key)])
        /\ delete_calls' = Append(delete_calls, key)
        /\ delete_todo' = delete_todo \ {key}
    /\ UNCHANGED mainvars
    /\ UNCHANGED <<raised, versions, served, recovery_time, dry_run, delete_newer, pc,
                   latest_versions, keys_without_older_versions, next_key_marker,
                   next_versionid_marker, result, idx, restore_idx,
                   list_calls, copy_calls>>

\* Variant: no except clause, the exception leaves delete_newer_versions.
DeleteObjectRaisesUncaught ==
    /\ pc = "delete_newer_versions"
    /\ ~dry_run
    /\ \E key \in delete_todo :
        /\ log' = Append(log, [level |-> "info", msg |-> "", action |-> DeleteAction(key)])
        /\ delete_calls' = Append(delete_calls, key)
        /\ delete_todo' = delete_todo
    /\ pc' = "raised"
    /\ raised' = raised \cup {<<"delete_object", Len(delete_calls) + 1>>}
    /\ UNCHANGED mainvars
    /\ UNCHANGED <<versions, served, recovery_time, dry_run, delete_newer,
                   latest_versions, keys_without_older_versions, next_key_marker,
                   next_versionid_marker, result, idx, restore_idx,
                   list_calls, copy_calls>>

\* One turn without dry_run where bucket.delete_object raises: logged, and
\* the loop goes on.
DeleteObjectRaises ==
    /\ pc = "delete_newer_versions"
    /\ ~dry_run
    /\ \E key \in delete_todo :
        /\ log' = log \o <<[level |-> "info", msg |-> "", action |-> DeleteAction(key)],
                           [level |-> "error", msg |-> "Error deleting", key |-> key]>>
        /\ delete_calls' = Append(delete_calls, key)
        /\ delete_todo' = delete_todo \ {key}
    /\ raised' = raised \cup {<<"delete_object", Len(delete_calls) + 1>>}
    /\ UNCHANGED mainvars
    /\ UNCHANGED <<versions, served, recovery_time, dry_run, delete_newer, pc,
                   latest_versions, keys_without_older_versions, next_key_marker,
                   next_versionid_marker, result, idx, restore_idx,
                   list_calls, copy_calls>>

\* delete_newer_versions returns and recover_objects logs the end line.
DeleteReturn ==
    /\ pc = "delete_newer_versions"
    /\ delete_todo = {}
    /\ pc' = "completed"
    /\ log' = Append(log, Completed)
    /\ UNCHANGED mainvars
    /\ UNCHANGED <<raised, versions, served, recovery_time, dry_run, delete_newer,
                   latest_versions, keys_without_older_versions, next_key_marker,
                   next_versionid_marker, result, idx, restore_idx, delete_todo,
                   list_calls, copy_calls, delete_calls>>

\* Variant: recover_objects calls delete_newer_versions before
\* restore_latest_versions.
GetObjectVersionsReturnDeleteFirst ==
    /\ pc = "for_versions"
    /\ idx > Len(result.versions)
    /\ ~result.is_truncated
    /\ next_key_marker' = ""
    /\ next_versionid_marker' = ""
    /\ result' = NoResult
    /\ idx' = 1
    /\ restore_idx' = 1
    /\ IF delete_newer
       THEN pc' = "delete_newer_versions" /\ delete_todo' = keys_without_older_versions
       ELSE pc' = "restore_latest_versions" /\ delete_todo' = delete_todo
    /\ UNCHANGED mainvars
    /\ UNCHANGED <<raised, versions, served, recovery_time, dry_run, delete_newer, latest_versions,
                   keys_without_older_versions,
                   list_calls, copy_calls, delete_calls, log>>

DeleteReturnDeleteFirst ==
    /\ pc = "delete_newer_versions"
    /\ delete_todo = {}
    /\ pc' = "restore_latest_versions"
    /\ log' = log
    /\ UNCHANGED mainvars
    /\ UNCHANGED <<raised, versions, served, recovery_time, dry_run, delete_newer,
                   latest_versions, keys_without_older_versions, next_key_marker,
                   next_versionid_marker, result, idx, restore_idx, delete_todo,
                   list_calls, copy_calls, delete_calls>>

RestoreReturnDeleteFirst ==
    /\ pc = "restore_latest_versions"
    /\ restore_idx > Len(latest_versions)
    /\ restore_idx' = 1
    /\ pc' = "completed"
    /\ log' = Append(log, Completed)
    /\ UNCHANGED mainvars
    /\ UNCHANGED <<raised, versions, served, recovery_time, dry_run, delete_newer,
                   latest_versions, keys_without_older_versions, next_key_marker,
                   next_versionid_marker, result, idx, delete_todo,
                   list_calls, copy_calls, delete_calls>>

NextDeleteFirst ==
    \/ RecoverObjects
    \/ ListObjectVersions
    \/ ListObjectVersionsRaises
    \/ ProcessVersion
    \/ NextPage
    \/ GetObjectVersionsReturnDeleteFirst
    \/ RestoreDryRun
    \/ CopyObject
    \/ CopyObjectRaises
    \/ RestoreReturnDeleteFirst
    \/ DeleteDryRun
    \/ DeleteObject
    \/ DeleteObjectRaises
    \/ DeleteReturnDeleteFirst

Next ==
    \/ RecoverObjects
    \/ ListObjectVersions
    \/ ListObjectVersionsRaises
    \/ ProcessVersion
    \/ NextPage
    \/ GetObjectVersionsReturn
    \/ RestoreDryRun
    \/ CopyObject
    \/ CopyObjectRaises
    \/ RestoreReturn
    \/ DeleteDryRun
    \/ DeleteObject
    \/ DeleteObjectRaises
    \/ DeleteReturn

Spec == Init /\ [][Next]_vars

\* One thread runs recover_objects and every request returns or raises, so
\* the run always takes its next step.
SpecLive == Init /\ [][Next]_vars /\ WF_vars(Next)

\* ------------------------------------------------------------------- main
\* Longest version listing in the runs that start at main.
MaxVersionsMain == 2

\* --recovery-time values, character by character: the three cutoffs around
\* the versions, the string of test_parse_recovery_time, and strings that
\* depart from YYYY-MM-DDTHH:MM:SSZ in layout or in the value of a field.
RecoveryTimeStrs ==
    {
     <<"1", "9", "7", "0", "-", "0", "1", "-", "0", "1", "T", "2", "3", ":", "5", "9", ":", "5", "8", "Z">>,
     <<"1", "9", "7", "0", "-", "0", "1", "-", "0", "1", "T", "2", "3", ":", "5", "9", ":", "5", "9", "Z">>,
     <<"1", "9", "7", "0", "-", "0", "1", "-", "0", "2", "T", "0", "0", ":", "0", "0", ":", "0", "0", "Z">>,
     <<"2", "0", "2", "3", "-", "1", "0", "-", "0", "7", "T", "1", "4", ":", "2", "4", ":", "0", "0", "Z">>,
     <<"i", "n", "v", "a", "l", "i", "d", "_", "t", "i", "m", "e", "_", "f", "o", "r", "m", "a", "t">>,
     <<"1", "9", "7", "0", "-", "1", "-", "2", "T", "0", ":", "0", ":", "0", "Z">>,
     <<"1", "9", "7", "0", "-", "0", "1", "-", "0", "2", "t", "0", "0", ":", "0", "0", ":", "0", "0", "z">>,
     <<"1", "9", "7", "0", "-", "0", "1", "-", " ", "2", "T", "0", "0", ":", "0", "0", ":", "0", "0", "Z">>,
     <<"1", "9", "7", "0", "-", "0", "1", "-", "0", "2", "T", "0", "0", ":", "0", "0", ":", "0", "0">>,
     <<"1", "9", "7", "0", "-", "0", "2", "-", "3", "0", "T", "0", "0", ":", "0", "0", ":", "0", "0", "Z">>,
     <<"1", "9", "7", "0", "-", "0", "1", "-", "0", "2", "T", "0", "0", ":", "0", "0", ":", "6", "0", "Z">>,
     <<"1", "9", "7", "0", "-", "1", "3", "-", "0", "1", "T", "0", "0", ":", "0", "0", ":", "0", "0", "Z">>,
     <<"1", "9", "7", "0", "-", "0", "1", "-", "0", "2", "T", "2", "4", ":", "0", "0", ":", "0", "0", "Z">>,
     <<"0", "0", "0", "0", "-", "0", "1", "-", "0", "2", "T", "0", "0", ":", "0", "0", ":", "0", "0", "Z">>
    }

Digits == {"0", "1", "2", "3", "4", "5", "6", "7", "8", "9"}

DigitValue(c) ==
    CASE c = "0" -> 0 [] c = "1" -> 1 [] c = "2" -> 2 [] c = "3" -> 3 [] c = "4" -> 4
      [] c = "5" -> 5 [] c = "6" -> 6 [] c = "7" -> 7 [] c = "8" -> 8 [] c = "9" -> 9

AllDigits(cs) == \A n \in 1..Len(cs) : cs[n] \in Digits

RECURSIVE Number(_)
Number(cs) ==
    IF cs = <<>> THEN 0
    ELSE 10 * Number(SubSeq(cs, 1, Len(cs) - 1)) + DigitValue(cs[Len(cs)])

\* A %m, %H, %M or %S field of strptime: one or two digits within the
\* directive's range (the regular expressions of _strptime.TimeRE).
MatchesField(cs, lo, hi) ==
    /\ Len(cs) \in {1, 2}
    /\ AllDigits(cs)
    /\ Number(cs) \in lo..hi

\* A %d field: as above, or a space and a digit from 1 to 9.
MatchesDay(cs) ==
    \/ MatchesField(cs, 1, 31)
    \/ (Len(cs) = 2 /\ cs[1] = " " /\ cs[2] \in Digits \ {"0"})

DayValue(cs) == IF cs[1] = " " THEN DigitValue(cs[2]) ELSE Number(cs)

\* The fields of cs under '%Y-%m-%dT%H:%M:%SZ' when month, day, hour,
\* minute and second take w[1]..w[5] characters; the literals T and Z match
\* in either case (the expression is compiled with IGNORECASE).
Fields(cs, w) ==
    LET m0 == 6
        d0 == m0 + w[1] + 1
        H0 == d0 + w[2] + 1
        M0 == H0 + w[3] + 1
        S0 == M0 + w[4] + 1
    IN [Y |-> SubSeq(cs, 1, 4),
        m |-> SubSeq(cs, m0, m0 + w[1] - 1),
        d |-> SubSeq(cs, d0, d0 + w[2] - 1),
        H |-> SubSeq(cs, H0, H0 + w[3] - 1),
        M |-> SubSeq(cs, M0, M0 + w[4] - 1),
        S |-> SubSeq(cs, S0, S0 + w[5] - 1),
        seps |-> <<cs[5], cs[d0 - 1], cs[H0 - 1], cs[M0 - 1], cs[S0 - 1], cs[S0 + w[5]]>>]

MatchesWidths(cs, w) ==
    /\ Len(cs) = 10 + w[1] + w[2] + w[3] + w[4] + w[5]
    /\ LET f == Fields(cs, w)
       IN /\ Len(f.Y) = 4 /\ AllDigits(f.Y)
          /\ MatchesField(f.m, 1, 12)
          /\ MatchesDay(f.d)
          /\ MatchesField(f.H, 0, 23)
          /\ MatchesField(f.M, 0, 59)
          /\ MatchesField(f.S, 0, 61)
          /\ f.seps[1] = "-" /\ f.seps[2] = "-"
          /\ f.seps[3] \in {"T", "t"}
          /\ f.seps[4] = ":" /\ f.seps[5] = ":"
          /\ f.seps[6] \in {"Z", "z"}

Widths == {w \in [1..5 -> {1, 2}] : TRUE}

IsLeap(year) == year % 4 = 0 /\ (year % 100 # 0 \/ year % 400 = 0)

DaysInMonth(year, month) ==
    CASE month \in {1, 3, 5, 7, 8, 10, 12} -> 31
      [] month \in {4, 6, 9, 11} -> 30
      [] OTHER -> IF IsLeap(year) THEN 29 ELSE 28

RECURSIVE DaysBeforeMonth(_, _)
DaysBeforeMonth(year, month) ==
    IF month = 1 THEN 0
    ELSE DaysBeforeMonth(year, month - 1) + DaysInMonth(year, month - 1)

\* date.toordinal(): day 1 is 0001-01-01.
Ordinal(year, month, day) ==
    LET y == year - 1
    IN y * 365 + y \div 4 - y \div 100 + y \div 400 + DaysBeforeMonth(year, month) + day

\* datetime(year, month, day, hour, minute, second, tzinfo=utc) in the
\* representation of FromTimestamp.
Datetime(year, month, day, hour, minute, second) ==
    [day |-> Ordinal(year, month, day) - Ordinal(1970, 1, 1),
     second |-> hour * 3600 + minute * 60 + second]

\* datetime.strptime(cs, '%Y-%m-%dT%H:%M:%SZ').replace(tzinfo=utc): the
\* datetime, or a ValueError when the layout does not match or the fields
\* name no datetime.
Strptime(cs) ==
    IF \E w \in Widths : MatchesWidths(cs, w)
    THEN LET f == Fields(cs, CHOOSE w \in Widths : MatchesWidths(cs, w))
             year == Number(f.Y)
             month == Number(f.m)
             day == DayValue(f.d)
         IN IF year >= 1 /\ day <= DaysInMonth(year, month) /\ Number(f.S) <= 59
            THEN [ValueError |-> FALSE,
                  value |-> Datetime(year, month, day, Number(f.H), Number(f.M), Number(f.S))]
            ELSE [ValueError |-> TRUE]
    ELSE [ValueError |-> TRUE]

InitMain ==
    /\ versions \in SeqsUpTo(VersionRecords, MaxVersionsMain)
    /\ served = 0
    /\ recovery_time_str \in RecoveryTimeStrs
    /\ recovery_time = None
    /\ dry_run \in BOOLEAN
    /\ delete_newer \in BOOLEAN
    /\ pc = "main"
    /\ bucket = None
    /\ sys_exit = <<>>
    /\ latest_versions = <<>>
    /\ keys_without_older_versions = {}
    /\ next_key_marker = ""
    /\ next_versionid_marker = ""
    /\ result = NoResult
    /\ idx = 1
    /\ restore_idx = 1
    /\ delete_todo = {}
    /\ list_calls = <<>>
    /\ copy_calls = <<>>
    /\ delete_calls = <<>>
    /\ raised = {}
    /\ log = <<>>

\* Variant: the ValueError is logged but the process does not exit.
ParseRecoveryTimeNoExit ==
    /\ pc = "main"
    /\ LET parsed == Strptime(recovery_time_str)
       IN IF parsed.ValueError
          THEN /\ log' = Append(log, [level |-> "error",
                                      msg |-> "Invalid recovery time format."])
               /\ recovery_time' = recovery_time
          ELSE /\ log' = log
               /\ recovery_time' = parsed.value
    /\ pc' = "initialize_oss_client"
    /\ UNCHANGED <<versions, served, dry_run, delete_newer, latest_versions,
                   keys_without_older_versions, next_key_marker, next_versionid_marker,
                   result, idx, restore_idx, delete_todo, list_calls, copy_calls,
                   delete_calls, raised, recovery_time_str, bucket, sys_exit>>

\* main up to parse_recovery_time: the parsed datetime, or the error line
\* and sys.exit(1).
ParseRecoveryTime ==
    /\ pc = "main"
    /\ LET parsed == Strptime(recovery_time_str)
       IN IF parsed.ValueError
          THEN /\ log' = Append(log, [level |-> "error",
                                      msg |-> "Invalid recovery time format."])
               /\ sys_exit' = <<1>>
               /\ recovery_time' = recovery_time
               /\ pc' = "exited"
          ELSE /\ log' = log
               /\ sys_exit' = sys_exit
               /\ recovery_time' = parsed.value
               /\ pc' = "initialize_oss_client"
    /\ UNCHANGED <<versions, served, dry_run, delete_newer, latest_versions,
                   keys_without_older_versions, next_key_marker, next_versionid_marker,
                   result, idx, restore_idx, delete_todo, list_calls, copy_calls,
                   delete_calls, raised, recovery_time_str, bucket>>

\* main builds the client and calls recover_objects.
InitializeOssClient ==
    /\ pc = "initialize_oss_client"
    /\ bucket' = bucket_name
    /\ pc' = "recover_objects"
    /\ UNCHANGED <<versions, served, recovery_time, dry_run, delete_newer, latest_versions,
                   keys_without_older_versions, next_key_marker, next_versionid_marker,
                   result, idx, restore_idx, delete_todo, list_calls, copy_calls,
                   delete_calls, raised, recovery_time_str, sys_exit, log>>

NextMain ==
    \/ ParseRecoveryTime
    \/ InitializeOssClient
    \/ Next

SpecMain == InitMain /\ [][NextMain]_vars

\* ================================================================ properties
\* get_object_versions has returned its two collections.
Planned == pc \in {"restore_latest_versions", "delete_newer_versions", "completed"}

\* A datetime as epoch seconds, and the cutoff in epoch seconds, so that the
\* properties compare the last_modified values the bucket reported.
Timestamp(dt) == dt.day * SecondsPerDay + dt.second

Cutoff == Timestamp(recovery_time)

\* Keys that occur in the listing, and the last_modified values of a key's
\* versions at or before the cutoff.
ObservedKeys == {versions[n].key : n \in 1..Len(versions)}

QualifyingTimes(k) ==
    {versions[n].last_modified : n \in {m \in 1..Len(versions) :
        versions[m].key = k /\ versions[m].last_modified <= Cutoff}}

Maximum(S) == CHOOSE x \in S : \A y \in S : y <= x

\* C1: once get_object_versions has returned, every key with a version at or
\* before the cutoff (the cutoff itself included) has an entry in
\* latest_versions whose version_time is the greatest last_modified of that
\* key at or before the cutoff, whatever the arrival order and paging.
C1_TargetIsLatestQualifying ==
    Planned =>
        \A k \in Keys :
            QualifyingTimes(k) # {} =>
                /\ DictHas(latest_versions, k)
                /\ DictGet(latest_versions, k).version_time
                       = FromTimestamp(Maximum(QualifyingTimes(k)))

\* C1 witness: a listing served in more than one page in which a key's newer
\* qualifying version arrives before its older one, and the newer one is
\* dated exactly at the cutoff.
C1_Witness ==
    /\ Planned
    /\ Len(list_calls) >= 2
    /\ \E m, n \in 1..Len(versions) :
        /\ m < n
        /\ versions[m].key = versions[n].key
        /\ versions[n].last_modified < versions[m].last_modified
        /\ versions[m].last_modified = Cutoff
        /\ versions[m].versionid # versions[n].versionid
        /\ DictGet(latest_versions, versions[m].key).versionid = versions[m].versionid

\* C2: once get_object_versions has returned, every key of the listing is in
\* exactly one of latest_versions and keys_without_older_versions, and no
\* other key is in either.
C2_ExactlyOneClass ==
    Planned =>
        \A k \in Keys :
            IF k \in ObservedKeys
            THEN DictHas(latest_versions, k) # (k \in keys_without_older_versions)
            ELSE ~DictHas(latest_versions, k) /\ k \notin keys_without_older_versions

\* C2 witness: one key of the listing ends in each collection, the restored
\* key having first been seen with a version after the cutoff.
C2_Witness ==
    /\ Planned
    /\ ObservedKeys = Keys
    /\ \E k \in Keys :
        /\ DictHas(latest_versions, k)
        /\ versions[CHOOSE n \in 1..Len(versions) : versions[n].key = k /\
               \A m \in 1..(n - 1) : versions[m].key # k].last_modified > Cutoff
    /\ keys_without_older_versions # {}

\* C3: once get_object_versions has returned, a key is in
\* keys_without_older_versions exactly when it occurs in the listing with no
\* version at or before the cutoff; a cutoff before every version leaves
\* latest_versions empty and every key orphan, a cutoff not before any
\* version leaves no orphan.
C3_OrphanIffNoQualifying ==
    Planned =>
        /\ \A k \in Keys :
              k \in keys_without_older_versions
                  <=> (k \in ObservedKeys /\ QualifyingTimes(k) = {})
        /\ (\A n \in 1..Len(versions) : versions[n].last_modified > Cutoff)
              => (latest_versions = <<>> /\ keys_without_older_versions = ObservedKeys)
        /\ (\A n \in 1..Len(versions) : versions[n].last_modified <= Cutoff)
              => keys_without_older_versions = {}

\* C3 witness: a key whose only qualifying version is dated exactly at the
\* cutoff and arrives after a later-dated one, next to a key with no
\* qualifying version.
C3_Witness ==
    /\ Planned
    /\ keys_without_older_versions # {}
    /\ \E k \in Keys :
        /\ k \notin keys_without_older_versions
        /\ QualifyingTimes(k) = {Cutoff}
        /\ \E m, n \in 1..Len(versions) :
              /\ m < n
              /\ versions[m].key = k /\ versions[n].key = k
              /\ versions[m].last_modified > Cutoff
              /\ versions[n].last_modified = Cutoff

\* Positions of the copy requests for a key, and of the delete requests.
CopiesOf(k) == {n \in 1..Len(copy_calls) : copy_calls[n].source_key = k}

DeletesOf(k) == {n \in 1..Len(delete_calls) : delete_calls[n] = k}

LogLines == {log[n] : n \in 1..Len(log)}

\* Keys that have a version after the cutoff.
HasLaterVersion(k) ==
    \E n \in 1..Len(versions) : versions[n].key = k /\ versions[n].last_modified > Cutoff

\* C4: every delete request is for a key none of whose listed versions is
\* dated at or before the cutoff, whichever requests failed.
C4_DeleteOnlyWhollyNewerKeys ==
    \A n \in 1..Len(delete_calls) :
        \A m \in 1..Len(versions) :
            versions[m].key = delete_calls[n] => versions[m].last_modified > Cutoff

\* C4 witness: a finished run in which a copy and a delete request failed, a
\* key was deleted, and the other key, which has a version after the cutoff
\* as well as one at or before it, was not.
C4_Witness ==
    /\ pc = "completed"
    /\ delete_calls # <<>>
    /\ \E m, n \in 1..2 : {<<"copy_object", m>>, <<"delete_object", n>>} \subseteq raised
    /\ \E k \in Keys :
        /\ HasLaterVersion(k)
        /\ QualifyingTimes(k) # {}
        /\ DeletesOf(k) = {}

\* C5: with dry_run set no copy and no delete request is sent; the list
\* requests are the only ones.
C5_DryRunSendsNothing ==
    dry_run => (copy_calls = <<>> /\ delete_calls = <<>> /\ raised \subseteq
                    {<<"list_object_versions", n>> : n \in 1..Len(list_calls)})

\* C5 witness: a finished dry run with delete_newer set that had a key to
\* restore and a key to delete, after a listing of more than one page.
C5_Witness ==
    /\ dry_run
    /\ delete_newer
    /\ pc = "completed"
    /\ latest_versions # <<>>
    /\ keys_without_older_versions # {}
    /\ Len(list_calls) >= 2

\* C6: without dry_run, restore_latest_versions sends one copy request per
\* key of latest_versions: while it runs, the keys visited so far have one
\* request each and the others none; once it has returned, every key has
\* exactly one.  A failed request is logged with its key and version id and
\* leaves the run inside restore_latest_versions or after it.
C6_OneCopyPerKey ==
    ~dry_run =>
        /\ copy_calls # <<>> =>
              pc \in {"restore_latest_versions", "delete_newer_versions", "completed"}
        /\ \A n \in 1..Len(copy_calls) : copy_calls[n].source_key \in DictKeys(latest_versions)
        /\ pc = "restore_latest_versions" =>
              \A n \in 1..Len(latest_versions) :
                  Cardinality(CopiesOf(latest_versions[n][1]))
                      = IF n < restore_idx THEN 1 ELSE 0
        /\ pc \in {"delete_newer_versions", "completed"} =>
              \A k \in DictKeys(latest_versions) : Cardinality(CopiesOf(k)) = 1
        /\ \A n \in 1..Len(copy_calls) :
              <<"copy_object", n>> \in raised =>
                  [level |-> "error", msg |-> "Error restoring",
                   key |-> copy_calls[n].source_key,
                   versionid |-> copy_calls[n].params.versionId] \in LogLines

\* C6 witness: restore_latest_versions has returned after two requests, the
\* first of which failed.
C6_Witness ==
    /\ ~dry_run
    /\ pc \in {"delete_newer_versions", "completed"}
    /\ Len(copy_calls) = 2
    /\ <<"copy_object", 1>> \in raised

\* C7: without dry_run, delete_newer_versions sends one delete request per
\* key of keys_without_older_versions: while it runs, the keys visited so far
\* have one request each and the others none; once it has returned, every
\* key has exactly one.  A failed request is logged with its key and leaves
\* the run inside delete_newer_versions or after it.
C7_OneDeletePerOrphan ==
    ~dry_run =>
        /\ delete_calls # <<>> => pc \in {"delete_newer_versions", "completed"}
        /\ \A n \in 1..Len(delete_calls) : delete_calls[n] \in keys_without_older_versions
        /\ pc = "delete_newer_versions" =>
              \A k \in keys_without_older_versions :
                  Cardinality(DeletesOf(k)) = IF k \in delete_todo THEN 0 ELSE 1
        /\ (pc = "completed" /\ delete_newer) =>
              \A k \in keys_without_older_versions : Cardinality(DeletesOf(k)) = 1
        /\ \A n \in 1..Len(delete_calls) :
              <<"delete_object", n>> \in raised =>
                  [level |-> "error", msg |-> "Error deleting",
                   key |-> delete_calls[n]] \in LogLines

\* C7 witness: delete_newer_versions has returned after two requests, the
\* first of which failed.
C7_Witness ==
    /\ ~dry_run
    /\ pc = "completed"
    /\ Len(delete_calls) = 2
    /\ <<"delete_object", 1>> \in raised

\* C8: every copy request copies a key of latest_versions onto itself within
\* the bucket, at the version id latest_versions records for that key.
C8_CopyToSelfAtPlannedVersion ==
    \A n \in 1..Len(copy_calls) :
        LET call == copy_calls[n]
        IN /\ call.source_key = call.target_key
           /\ call.source_bucket_name = bucket_name
           /\ DictHas(latest_versions, call.source_key)
           /\ call.params = [versionId |-> DictGet(latest_versions, call.source_key).versionid]

\* C8 witness: two copy requests with different version ids, one of them for
\* a key whose listing also holds another version id.
C8_Witness ==
    /\ Len(copy_calls) = 2
    /\ copy_calls[1].params.versionId # copy_calls[2].params.versionId
    /\ \E n \in 1..Len(versions) :
        /\ versions[n].key = copy_calls[2].source_key
        /\ versions[n].versionid # copy_calls[2].params.versionId

\* C9: without delete_newer no delete request is sent and
\* delete_newer_versions is never entered, whatever dry_run is.
C9_NoDeleteWithoutOptIn ==
    ~delete_newer =>
        /\ delete_calls = <<>>
        /\ pc # "delete_newer_versions"
        /\ \A line \in LogLines :
              "action" \in DOMAIN line => line.action.verb # "Deleting"

\* C9 witness: a finished run without delete_newer and without dry_run that
\* restored a key and left an orphan key alone.
C9_Witness ==
    /\ ~delete_newer
    /\ ~dry_run
    /\ pc = "completed"
    /\ copy_calls # <<>>
    /\ keys_without_older_versions # {}

\* C10: when a list request fails, it is the last request of the run: the
\* run has left recover_objects with the exception, never sends a copy or a
\* delete request, never logs the end line and takes no further step.
C10_ListFailureAborts ==
    \A n \in 1..Len(list_calls) :
        <<"list_object_versions", n>> \in raised =>
            /\ n = Len(list_calls)
            /\ pc = "raised"
            /\ copy_calls = <<>>
            /\ delete_calls = <<>>
            /\ Completed \notin LogLines
            /\ ~ENABLED Next

\* C10 witness: the second list request fails in a run without dry_run and
\* with delete_newer, after the first page had put a key in each collection.
C10_Witness ==
    /\ <<"list_object_versions", 2>> \in raised
    /\ ~dry_run
    /\ delete_newer
    /\ latest_versions # <<>>
    /\ keys_without_older_versions # {}

\* Positions in the listing of a key's versions dated at the key's greatest
\* last_modified at or before the cutoff.
TiedAtMaximum(k) ==
    {n \in 1..Len(versions) :
        versions[n].key = k /\ QualifyingTimes(k) # {}
        /\ versions[n].last_modified = Maximum(QualifyingTimes(k))}

Minimum(S) == CHOOSE x \in S : \A y \in S : x <= y

\* C11 as stated: when several versions of a key share the key's greatest
\* last_modified at or before the cutoff, latest_versions records the one
\* that arrived last.
C11_LaterArrivalWinsTie ==
    Planned =>
        \A k \in Keys :
            Cardinality(TiedAtMaximum(k)) >= 2 =>
                DictGet(latest_versions, k).versionid
                    = versions[Maximum(TiedAtMaximum(k))].versionid

\* C11 amended: when several versions of a key share the key's greatest
\* last_modified at or before the cutoff, latest_versions records the one
\* that arrived first (the replacement test is a strict >).
C11_EarlierArrivalWinsTie ==
    Planned =>
        \A k \in Keys :
            Cardinality(TiedAtMaximum(k)) >= 2 =>
                /\ DictHas(latest_versions, k)
                /\ DictGet(latest_versions, k).versionid
                       = versions[Minimum(TiedAtMaximum(k))].versionid

\* C11 witness: two versions of a key with the same qualifying instant and
\* different version ids, served on different pages, the first one recorded.
C11_Witness ==
    /\ Planned
    /\ Len(list_calls) >= 2
    /\ \E k \in Keys :
        /\ Cardinality(TiedAtMaximum(k)) >= 2
        /\ versions[Minimum(TiedAtMaximum(k))].versionid
               # versions[Maximum(TiedAtMaximum(k))].versionid
        /\ DictGet(latest_versions, k).versionid
               = versions[Minimum(TiedAtMaximum(k))].versionid

\* Positions of the log lines that carry a given action under a given
\* message, and the number of actions the plan calls for.
LinesOf(msg, action) ==
    {n \in 1..Len(log) :
        log[n] = [level |-> "info", msg |-> msg, action |-> action]}

ActionLines(msg) ==
    {n \in 1..Len(log) : "action" \in DOMAIN log[n] /\ log[n].msg = msg}

IntendedActions ==
    Len(latest_versions)
        + (IF delete_newer THEN Cardinality(keys_without_older_versions) ELSE 0)

\* C12: a dry run logs nothing about an action but "[Dry Run] Would" lines
\* and no error line; when it ends there is exactly one such line for each
\* entry of latest_versions, one for each key of
\* keys_without_older_versions if delete_newer and none otherwise, and
\* their number is the number of copy and delete requests a finished run
\* without dry_run sends for the same plan.
C12_OneDryRunLinePerAction ==
    /\ dry_run =>
          /\ ActionLines("") = {}
          /\ \A n \in 1..Len(log) : log[n].level # "error"
          /\ pc = "completed" =>
                /\ \A n \in 1..Len(latest_versions) :
                      Cardinality(LinesOf("[Dry Run] Would",
                          RestoreAction(latest_versions[n][1], latest_versions[n][2]))) = 1
                /\ \A k \in keys_without_older_versions :
                      Cardinality(LinesOf("[Dry Run] Would", DeleteAction(k)))
                          = IF delete_newer THEN 1 ELSE 0
                /\ Cardinality(ActionLines("[Dry Run] Would")) = IntendedActions
    /\ (~dry_run /\ pc = "completed") =>
          /\ Len(copy_calls) + Len(delete_calls) = IntendedActions
          /\ ActionLines("[Dry Run] Would") = {}

\* C12 witness: a finished dry run with delete_newer that logged a restore
\* line and a delete line.
C12_Witness ==
    /\ dry_run
    /\ delete_newer
    /\ pc = "completed"
    /\ \E k1, k2 \in Keys :
        /\ DictHas(latest_versions, k1)
        /\ LinesOf("[Dry Run] Would",
                   RestoreAction(k1, DictGet(latest_versions, k1))) # {}
        /\ LinesOf("[Dry Run] Would", DeleteAction(k2)) # {}

\* YYYY-MM-DDTHH:MM:SSZ taken literally: twenty characters, digits where
\* the letters stand, and the punctuation, T and Z as written.
MatchesFormat(cs) ==
    /\ Len(cs) = 20
    /\ \A n \in {1, 2, 3, 4, 6, 7, 9, 10, 12, 13, 15, 16, 18, 19} : cs[n] \in Digits
    /\ cs[5] = "-" /\ cs[8] = "-" /\ cs[11] = "T"
    /\ cs[14] = ":" /\ cs[17] = ":" /\ cs[20] = "Z"

\* The number written at positions a..b.
Written(cs, a, b) == Number(SubSeq(cs, a, b))

\* A string in that format whose fields name a date and a time of day.
WellFormed(cs) ==
    /\ MatchesFormat(cs)
    /\ Written(cs, 1, 4) >= 1
    /\ Written(cs, 6, 7) \in 1..12
    /\ Written(cs, 9, 10) \in 1..DaysInMonth(Written(cs, 1, 4), Written(cs, 6, 7))
    /\ Written(cs, 12, 13) \in 0..23
    /\ Written(cs, 15, 16) \in 0..59
    /\ Written(cs, 18, 19) \in 0..59

\* The UTC instant a well-formed string writes.
InstantWritten(cs) ==
    Datetime(Written(cs, 1, 4), Written(cs, 6, 7), Written(cs, 9, 10),
             Written(cs, 12, 13), Written(cs, 15, 16), Written(cs, 18, 19))

\* The process ended in parse_recovery_time with exit code 1: no client was
\* built, no request was sent, and nothing runs afterwards.
ExitedAtStartup ==
    /\ pc = "exited"
    /\ sys_exit = <<1>>
    /\ bucket = None
    /\ list_calls = <<>> /\ copy_calls = <<>> /\ delete_calls = <<>>
    /\ ~ENABLED NextMain

\* C13 as stated: every --recovery-time string that does not match
\* YYYY-MM-DDTHH:MM:SSZ ends the process at startup with exit code 1, and a
\* well-formed string yields the instant it writes.
C13_NonMatchingStringExits ==
    pc # "main" =>
        /\ ~MatchesFormat(recovery_time_str) => ExitedAtStartup
        /\ WellFormed(recovery_time_str) =>
              (sys_exit = <<>> /\ recovery_time = InstantWritten(recovery_time_str))

\* C13 amended: every --recovery-time string that strptime rejects under
\* '%Y-%m-%dT%H:%M:%SZ' ends the process at startup with exit code 1,
\* before the client is built and before any request; the process exits for
\* no other string; every string that is not well-formed is either rejected
\* or departs from the format only in the width of a field or the case of T
\* and Z; and a well-formed string yields the instant it writes.
C13_RejectedStringExits ==
    pc # "main" =>
        /\ Strptime(recovery_time_str).ValueError => ExitedAtStartup
        /\ ~Strptime(recovery_time_str).ValueError => (sys_exit = <<>> /\ pc # "exited")
        /\ (~WellFormed(recovery_time_str) /\ sys_exit = <<>>) =>
              (\/ Len(recovery_time_str) < 20
               \/ \E n \in 1..Len(recovery_time_str) :
                      recovery_time_str[n] \in {"t", "z", " "})
        /\ WellFormed(recovery_time_str) =>
              (sys_exit = <<>> /\ recovery_time = InstantWritten(recovery_time_str))

\* C13 witness: the string of the test, which is not in the format, has
\* ended the process at startup.
C13_Witness ==
    /\ ~MatchesFormat(recovery_time_str)
    /\ Len(recovery_time_str) = 19
    /\ recovery_time_str[8] = "_"
    /\ ExitedAtStartup
    /\ log # <<>>

IsPrefix(a, b) == Len(a) <= Len(b) /\ SubSeq(b, 1, Len(a)) = a

\* C14: the requests of a run come in three phases.  A step that sends a
\* list request happens while no copy and no delete request has been sent;
\* a step that sends a copy request happens after the whole listing has
\* been served and processed and while no delete request has been sent; a
\* step that sends a delete request happens after the listing; and requests
\* once sent stay sent.
C14_PhasesInOrder ==
    [][/\ IsPrefix(list_calls, list_calls')
       /\ IsPrefix(copy_calls, copy_calls')
       /\ IsPrefix(delete_calls, delete_calls')
       /\ list_calls' # list_calls => (copy_calls' = <<>> /\ delete_calls' = <<>>)
       /\ copy_calls' # copy_calls =>
             (delete_calls' = <<>> /\ served = Len(versions)
              /\ pc = "restore_latest_versions")
       /\ delete_calls' # delete_calls =>
             (served = Len(versions) /\ pc = "delete_newer_versions")]_vars

\* C14 witness: a finished run that sent two list requests, then a copy
\* request, then a delete request.
C14_Witness ==
    /\ pc = "completed"
    /\ Len(list_calls) >= 2
    /\ copy_calls # <<>>
    /\ delete_calls # <<>>

Listing == pc \in {"recover_objects", "list_object_versions", "for_versions"}

\* C15: the first list request carries empty markers; every later one is
\* sent only after a truncated response and carries that response's
\* next_key_marker and next_versionid_marker; the loop is left only after
\* every record of the page has been processed, towards another request if
\* the page was truncated and out of get_object_versions if it was not, with
\* the two collections those of all the records received; and, the listing
\* being finite, the loop is left.
C15_PaginationProtocol ==
    /\ [](list_calls # <<>> =>
            (list_calls[1].key_marker = "" /\ list_calls[1].versionid_marker = ""))
    /\ [][/\ (list_calls' # list_calls /\ list_calls # <<>>) =>
                /\ result.is_truncated
                /\ list_calls'[Len(list_calls')].key_marker = result.next_key_marker
                /\ list_calls'[Len(list_calls')].versionid_marker
                       = result.next_versionid_marker
          /\ list_calls' # list_calls =>
                (pc = "list_object_versions" /\ Len(list_calls') = Len(list_calls) + 1)
          /\ (pc = "list_object_versions" /\ pc' # pc) => list_calls' # list_calls
          /\ (pc = "for_versions" /\ pc' # pc) =>
                /\ idx > Len(result.versions)
                /\ pc' = IF result.is_truncated THEN "list_object_versions"
                         ELSE "restore_latest_versions"
                /\ latest_versions'
                       = PlanLatest(SubSeq(versions, 1, served), recovery_time)
                /\ keys_without_older_versions'
                       = PlanOrphans(SubSeq(versions, 1, served), recovery_time)]_vars
    /\ <>(~Listing)

\* C15 witness: get_object_versions has returned after three list requests,
\* the later ones with non-empty markers.
C15_Witness ==
    /\ Planned
    /\ Len(list_calls) = 3
    /\ list_calls[2].key_marker # ""
    /\ list_calls[3].versionid_marker # list_calls[2].versionid_marker
    /\ raised = {}

\* How many records of the listing the for loop has processed.
Processed ==
    IF pc = "for_versions" THEN served - Len(result.versions) + (idx - 1) ELSE served

SeenQualifying(k) ==
    \E n \in 1..Processed : versions[n].key = k /\ versions[n].last_modified <= Cutoff

Seen(k) == \E n \in 1..Processed : versions[n].key = k

\* C16: in every state of the scan, a key is in keys_without_older_versions
\* exactly when a version of it has been processed and none of the processed
\* ones is dated at or before the cutoff (so it leaves the set with its first
\* qualifying version and does not come back), a key has an entry in
\* latest_versions exactly when one of its processed versions qualifies, and
\* no key is in both.  A step never puts a key that has an entry into the set.
C16_MidScanOrphans ==
    /\ [](\A k \in Keys :
            /\ k \in keys_without_older_versions <=> (Seen(k) /\ ~SeenQualifying(k))
            /\ DictHas(latest_versions, k) <=> SeenQualifying(k)
            /\ ~(DictHas(latest_versions, k) /\ k \in keys_without_older_versions))
    /\ [][\A k \in Keys :
            DictHas(latest_versions, k) => k \notin keys_without_older_versions']_vars

\* C16 witness: in the middle of a page, a key that was in the set has just
\* left it with its first qualifying version, and a later-dated version of
\* it is still to come.
C16_Witness ==
    /\ pc = "for_versions"
    /\ idx <= Len(result.versions)
    /\ Processed >= 2
    /\ versions[Processed - 1].key = versions[Processed].key
    /\ versions[Processed - 1].last_modified > Cutoff
    /\ versions[Processed].last_modified <= Cutoff
    /\ versions[Processed + 1].key = versions[Processed].key
    /\ versions[Processed + 1].last_modified > Cutoff
    /\ keys_without_older_versions = {}

\* C17: only a failed list request ends a run with an exception; once
\* get_object_versions has returned, the run reaches its end line whatever
\* copy and delete requests fail; and a run that ends with delete_newer and
\* without dry_run has sent a delete request for every key of
\* keys_without_older_versions, failed copies notwithstanding.
C17_RunCompletes ==
    /\ [](pc = "raised" =>
            /\ \E n \in 1..Len(list_calls) : <<"list_object_versions", n>> \in raised
            /\ copy_calls = <<>> /\ delete_calls = <<>>)
    /\ (Planned ~> (pc = "completed" /\ log[Len(log)] = Completed))
    /\ []((pc = "completed" /\ delete_newer /\ ~dry_run) =>
            \A k \in keys_without_older_versions : DeletesOf(k) # {})

\* C17 witness: a run has ended after every one of its copy requests and
\* every one of its delete requests failed, at least one of each.
C17_Witness ==
    /\ pc = "completed"
    /\ log[Len(log)] = Completed
    /\ copy_calls # <<>>
    /\ delete_calls # <<>>
    /\ raised = {<<"copy_object", n>> : n \in 1..Len(copy_calls)}
                 \cup {<<"delete_object", n>> : n \in 1..Len(delete_calls)}

\* C18: once get_object_versions has returned, no step of
\* restore_latest_versions or delete_newer_versions changes latest_versions
\* or keys_without_older_versions, with or without dry_run and whether the
\* requests succeed or fail.
C18_PlanFrozen ==
    [][Planned => /\ latest_versions' = latest_versions
                  /\ keys_without_older_versions' = keys_without_older_versions]_vars

\* C18 witness: a run without dry_run has ended after both phases sent
\* requests, some of which failed and some of which succeeded.
C18_Witness ==
    /\ pc = "completed"
    /\ ~dry_run
    /\ copy_calls # <<>>
    /\ delete_calls # <<>>
    /\ \E n \in 1..Len(delete_calls) : <<"delete_object", n>> \notin raised
    /\ \E n \in 1..Len(copy_calls) : <<"copy_object", n>> \in raised
    /\ Len(latest_versions) >= 1
    /\ keys_without_older_versions # {}

\* C19: in one run no key is both the source of a copy request and the
\* target of a delete request.
C19_RestoredAndDeletedDisjoint ==
    \A k \in Keys : CopiesOf(k) = {} \/ DeletesOf(k) = {}

\* C19 witness: a run has ended after copying one key and deleting another,
\* and the copied key's version after the cutoff was listed before its
\* version at or before the cutoff.
C19_Witness ==
    /\ pc = "completed"
    /\ \E k1 \in Keys, k2 \in Keys :
        /\ k1 # k2
        /\ CopiesOf(k1) # {}
        /\ DeletesOf(k2) # {}
        /\ \E n \in 1..Len(versions), m \in 1..Len(versions) :
            /\ n < m
            /\ versions[n].key = k1 /\ versions[n].last_modified > Cutoff
            /\ versions[m].key = k1 /\ versions[m].last_modified <= Cutoff

\* A listing with every repeated record dropped, the first occurrence kept.
RECURSIVE Dedup(_)
Dedup(seq) ==
    IF seq = <<>> THEN <<>>
    ELSE LET front == SubSeq(seq, 1, Len(seq) - 1)
             last == seq[Len(seq)]
         IN IF \E n \in 1..Len(front) : front[n] = last
            THEN Dedup(front)
            ELSE Append(Dedup(front), last)

\* C20: when the listing repeats a record (same key, versionid and
\* last_modified), latest_versions and keys_without_older_versions are what
\* the scan computes from the listing with the repeats dropped.
C20_DuplicatesIgnored ==
    Planned =>
        /\ latest_versions = PlanLatest(Dedup(versions), recovery_time)
        /\ keys_without_older_versions = PlanOrphans(Dedup(versions), recovery_time)

\* C20 witness: a listing fetched in more than one request repeats a record
\* at or before the cutoff, with a different version of the same key and the
\* same last_modified in between.
C20_Witness ==
    /\ Planned
    /\ Len(list_calls) >= 2
    /\ Len(versions) = 3
    /\ versions[1] = versions[3]
    /\ versions[2].key = versions[1].key
    /\ versions[2].versionid # versions[1].versionid
    /\ versions[2].last_modified = versions[1].last_modified
    /\ versions[1].last_modified <= Cutoff
    /\ DictGet(latest_versions, versions[1].key).versionid = versions[1].versionid
====
